---- MODULE Spec2Model ----
(***************************************************************************)
(* Background detection of the APCACH Figma plugin (src/src/code.ts).      *)
(*                                                                         *)
(* The scene graph is the host document: a page (id 0) and the scene nodes *)
(* 1..NumNodes, each with a parent, an ordered children array, a           *)
(* visibility flag, an opacity, a blend mode, a paint list and an absolute *)
(* bounding box.  The plugin state is the three module-level caches and    *)
(* the time of their last reset.  detectBackgroundColor is modelled phase  *)
(* by phase; its result carries, beside the colour, the phase, the node    *)
(* and the paint the colour was read from (what the code prints to the     *)
(* console when it returns).                                               *)
(*                                                                         *)
(* Units: a paint colour channel is a Figma float in thousandths           *)
(* (0..1000); a returned channel is a byte value in thousandths            *)
(* (30000 = 30), because getPageBackground returns c * 255 unrounded.      *)
(* Opacities are percentages (0..100).  Time is in milliseconds.           *)
(***************************************************************************)
EXTENDS Integers, Sequences, FiniteSets, TLC

VARIABLES
    parent,             \* node.parent of every scene node (0 = the page)
    children,           \* node.children of the page and of every scene node
    nodes,              \* the fields of every scene node
    page,               \* the paints of figma.currentPage
    nodeDepthCache,     \* Map<string, number>
    intersectionCache,  \* Map<string, string[]>
    lastCacheReset,     \* time of the last cache reset
    now,                \* Date.now()
    target,             \* the node of the last detectBackgroundColor call (0: none yet)
    result,             \* what that call returned
    lastList,           \* the list findIntersectingNodesBelow gave that call
    memo,               \* per node, the result of its first call on this scene graph
    call,               \* of the last call: was it a repeat, how its list was obtained
    event,              \* the last thing that happened, the clock apart
    edits,              \* number of edits the user made to the document
    storedAt,           \* for each entry of the intersection cache, when it was written
    selection,          \* figma.currentPage.selection at the last selectionchange event
    posted              \* the messages that event posted to the UI, in order

vars == <<parent, children, nodes, page, nodeDepthCache, intersectionCache,
          lastCacheReset, now, target, result, lastList, memo, call, event, edits,
          storedAt, selection, posted>>

uiVars == <<selection, posted>>
sceneVars == <<parent, children, nodes, page>>
cacheVars == <<nodeDepthCache, intersectionCache, lastCacheReset>>

\* ------------------------------------------------------------------ bounds

NumNodes == 3
MaxVariants == 2
MaxCacheVariants == 1
MaxTicks == 2
MaxEdits == 1

\* ------------------------------------------------------------------ constants

PAGE == 0
DOCUMENT == 0 - 1
NONE == 0 - 2
CACHE_TTL == 5000
TickMs == 2600
MAX_ANCESTOR_DEPTH == 3

Nodes == DOMAIN nodes

UNSUPPORTED_BLEND_MODES == {"LINEAR_BURN", "LINEAR_DODGE"}

supportedBlendModes ==
    {"NORMAL", "PASS_THROUGH", "MULTIPLY", "SCREEN", "OVERLAY", "DARKEN", "LIGHTEN",
     "COLOR_DODGE", "COLOR_BURN", "HARD_LIGHT", "SOFT_LIGHT", "DIFFERENCE",
     "EXCLUSION", "HUE", "SATURATION", "COLOR", "LUMINOSITY"}

Undefined == "undefined"

FALLBACK_COLOR == <<30000, 30000, 30000>>

\* ------------------------------------------------------------------ helpers

Range(s) == {s[i] : i \in DOMAIN s}

IndexOf(s, x) ==
    IF \E i \in DOMAIN s : s[i] = x
    THEN CHOOSE i \in DOMAIN s : s[i] = x /\ \A j \in DOMAIN s : s[j] = x => i <= j
    ELSE 0

Reverse(s) == [i \in 1..Len(s) |-> s[Len(s) + 1 - i]]

EmptyMap == [k \in {} |-> 0]

MapSet(m, k, v) == [x \in (DOMAIN m) \cup {k} |-> IF x = k THEN v ELSE m[x]]

\* Math.round(c * 255) of a channel given in thousandths
ToByte(c) == (c * 255 + 500) \div 1000

\* ------------------------------------------------------------------ blend modes

hasValidBlendMode(blendMode) ==
    IF blendMode = Undefined THEN TRUE
    ELSE blendMode \notin UNSUPPORTED_BLEND_MODES

isSupportedBlendMode(mode) == mode \in supportedBlendModes

isSupportedFillBlendMode(mode) == isSupportedBlendMode(mode)

hasValidBlendModes(n) ==
    IF nodes[n].blendMode # "PASS_THROUGH" /\ ~isSupportedBlendMode(nodes[n].blendMode)
    THEN FALSE
    ELSE IF nodes[n].hasFills
              /\ \E i \in DOMAIN nodes[n].fills :
                    /\ nodes[n].fills[i].type = "SOLID"
                    /\ nodes[n].fills[i].blendMode # Undefined
                    /\ ~isSupportedFillBlendMode(nodes[n].fills[i].blendMode)
         THEN FALSE
         ELSE TRUE

\* ------------------------------------------------------------------ fills

\* fills.find(f => f.type === 'SOLID' && f.visible !== false): its index, 0 if none
FirstSolidVisible(fills) ==
    IF \E i \in DOMAIN fills : fills[i].type = "SOLID" /\ fills[i].visible
    THEN CHOOSE i \in DOMAIN fills :
            /\ fills[i].type = "SOLID" /\ fills[i].visible
            /\ \A j \in DOMAIN fills :
                  (fills[j].type = "SOLID" /\ fills[j].visible) => i <= j
    ELSE 0

IsValidFill(fill) == fill.type = "SOLID" /\ fill.visible /\ fill.opacity > 0

\* node.fills is figma.mixed (a symbol, src/src/code.ts:2767): Array.from of it is
\* empty, and reading .find of it or iterating it throws a TypeError
FillsAreMixed(n) == nodes[n].hasFills /\ nodes[n].mixed

hasValidSolidFill(n) ==
    IF ~nodes[n].hasFills THEN FALSE
    ELSE IF ~nodes[n].visible THEN FALSE
    ELSE IF nodes[n].opacity <= 0 THEN FALSE
    ELSE IF FillsAreMixed(n) \/ Len(nodes[n].fills) = 0 THEN FALSE
    ELSE \E i \in DOMAIN nodes[n].fills : IsValidFill(nodes[n].fills[i])

\* the { r, g, b } object every node phase builds from the paint it reads
FillResult(phase, n) ==
    LET i == FirstSolidVisible(nodes[n].fills)
        c == nodes[n].fills[i].color
    IN  [color |-> <<ToByte(c[1]) * 1000, ToByte(c[2]) * 1000, ToByte(c[3]) * 1000>>,
         phase |-> phase, src |-> n, paint |-> i]

\* ------------------------------------------------------------------ geometry

NoBox == [x |-> 0, y |-> 0, width |-> 0 - 1, height |-> 0 - 1]

getBoundingBox(n) == nodes[n].box

Overlap(boxA, boxB) ==
    /\ boxA.x < boxB.x + boxB.width
    /\ boxA.x + boxA.width > boxB.x
    /\ boxA.y < boxB.y + boxB.height
    /\ boxA.y + boxA.height > boxB.y

doesNodeIntersectAndIsBelow(nodeA, nodeB) ==
    LET boxA == getBoundingBox(nodeA)
        boxB == getBoundingBox(nodeB)
    IN  IF boxA = NoBox \/ boxB = NoBox THEN FALSE
        ELSE IF ~Overlap(boxA, boxB) THEN FALSE
        ELSE IF parent[nodeA] = parent[nodeB]
             THEN IndexOf(children[parent[nodeA]], nodeB)
                    < IndexOf(children[parent[nodeA]], nodeA)
             ELSE TRUE

doesNodeContain(containerNode, targetNode) ==
    LET containerBox == getBoundingBox(containerNode)
        targetBox == getBoundingBox(targetNode)
    IN  IF containerBox = NoBox \/ targetBox = NoBox THEN FALSE
        ELSE /\ targetBox.x >= containerBox.x
             /\ targetBox.y >= containerBox.y
             /\ targetBox.x + targetBox.width <= containerBox.x + containerBox.width
             /\ targetBox.y + targetBox.height <= containerBox.y + containerBox.height

doesNodeIntersectOrEncapsulate(nodeA, nodeB) ==
    LET boxA == getBoundingBox(nodeA)
        boxB == getBoundingBox(nodeB)
        intersects == Overlap(boxA, boxB)
        encapsulates ==
            /\ boxA.x <= boxB.x
            /\ boxA.y <= boxB.y
            /\ boxA.x + boxA.width >= boxB.x + boxB.width
            /\ boxA.y + boxA.height >= boxB.y + boxB.height
        isSignificantlyLarger ==
            /\ boxA.width > boxB.width * 3
            /\ boxA.height > boxB.height * 3
    IN  IF boxA = NoBox \/ boxB = NoBox THEN FALSE
        ELSE intersects \/ encapsulates \/ isSignificantlyLarger

\* an intersection test with <= and >= for < and >
doesIntersectClosed(nodeA, nodeB) ==
    LET boxA == getBoundingBox(nodeA)
        boxB == getBoundingBox(nodeB)
    IN  IF boxA = NoBox \/ boxB = NoBox THEN FALSE
        ELSE /\ boxA.x <= boxB.x + boxB.width
             /\ boxA.x + boxA.width >= boxB.x
             /\ boxA.y <= boxB.y + boxB.height
             /\ boxA.y + boxA.height >= boxB.y

doesIntersect(nodeA, nodeB) ==
    LET boxA == getBoundingBox(nodeA)
        boxB == getBoundingBox(nodeB)
    IN  IF boxA = NoBox \/ boxB = NoBox THEN FALSE
        ELSE Overlap(boxA, boxB)

\* ------------------------------------------------------------------ the tree

\* node.parent of any BaseNode: the page's parent is the document, whose parent is null
ParentOf(x) ==
    IF x \in Nodes THEN parent[x]
    ELSE IF x = PAGE THEN DOCUMENT
    ELSE NONE

\* the node and all its ancestors, nearest first (the walk "while (current)")
RECURSIVE AncestorsFrom(_)
AncestorsFrom(x) == IF x = NONE THEN <<>> ELSE <<x>> \o AncestorsFrom(ParentOf(x))

\* a visibility test that looks at the node alone
isNodeVisibleSelf(n) == nodes[n].visible

isNodeVisible(n) ==
    \A x \in Range(AncestorsFrom(n)) : x \in Nodes => nodes[x].visible

\* traverse(node) over each node of a children array, in order
RECURSIVE TraverseAll(_)
TraverseAll(list) ==
    IF list = <<>> THEN <<>>
    ELSE <<Head(list)>> \o TraverseAll(children[Head(list)]) \o TraverseAll(Tail(list))

getAllNodesOnPage == TraverseAll(children[PAGE])

\* number of parent links above the node ("while (current && current.parent)")
TreeDepth(n) == Len(AncestorsFrom(n)) - 1

\* getNodeDepth: the value and the depth cache after the call
getNodeDepth(n, dc) ==
    IF n \in DOMAIN dc THEN [v |-> dc[n], dc |-> dc]
    ELSE [v |-> TreeDepth(n), dc |-> MapSet(dc, n, TreeDepth(n))]

\* bDepth - aDepth, once both depths are known
DepthDifference(da, db) == [v |-> db.v - da.v, dc |-> db.dc]

SecondDepth(da, b) == DepthDifference(da, getNodeDepth(b, da.dc))

\* collectNodeParents(node).length
nestingLevel(n) == Cardinality({x \in Range(AncestorsFrom(ParentOf(n))) : x \in Nodes})

\* node.parent?.children?.indexOf(node) ?? -1 (0-based)
zIndex(n) ==
    IF parent[n] = NONE THEN 0 - 1 ELSE IndexOf(children[parent[n]], n) - 1

\* ------------------------------------------------------------------ the caches

\* a clearCachesIfNeeded that leaves the intersection cache alone
clearCachesButIntersections(dc, ic, last, t) ==
    IF t - last > CACHE_TTL
    THEN [dc |-> EmptyMap, ic |-> ic, last |-> t]
    ELSE [dc |-> dc, ic |-> ic, last |-> last]

clearCachesIfNeeded(dc, ic, last, t) ==
    IF t - last > CACHE_TTL
    THEN [dc |-> EmptyMap, ic |-> EmptyMap, last |-> t]
    ELSE [dc |-> dc, ic |-> ic, last |-> last]

\* ------------------------------------------------------------------ the finder

\* array.findIndex(pred) as a 1-based index, 0 when nothing matches; holds[i] tells
\* whether pred holds of the i-th element
FirstIndex(holds) ==
    IF \E i \in DOMAIN holds : holds[i]
    THEN CHOOSE i \in DOMAIN holds : holds[i] /\ \A j \in DOMAIN holds : holds[j] => i <= j
    ELSE 0

DepthCompare(a, b, dc) == SecondDepth(getNodeDepth(a, dc), b)

\* the comparator of intersectingNodes.sort, for two nodes that are not siblings,
\* given their ancestor lists: its sign value and the depth cache after
CompareByAncestors(a, b, dc, aAncestors, bAncestors) ==
    LET InB(x) == x \in Range(bAncestors)
        ci == FirstIndex([k \in DOMAIN aAncestors |-> InB(aAncestors[k])])
    IN  IF ci = 0
        THEN [v |-> IndexOf(getAllNodesOnPage, a) - IndexOf(getAllNodesOnPage, b),
              dc |-> dc]
        ELSE
          LET commonAncestor == aAncestors[ci]
              ChildOfCommon(x) == ParentOf(x) = commonAncestor
              aDirectChildIndex ==
                  FirstIndex([k \in DOMAIN aAncestors |-> ChildOfCommon(aAncestors[k])])
              bDirectChildIndex ==
                  FirstIndex([k \in DOMAIN bAncestors |-> ChildOfCommon(bAncestors[k])])
          IN  IF aDirectChildIndex = 0 \/ bDirectChildIndex = 0
              THEN DepthCompare(a, b, dc)
              ELSE IF commonAncestor \in Nodes
              THEN [v |-> IndexOf(children[commonAncestor], aAncestors[aDirectChildIndex])
                          - IndexOf(children[commonAncestor], bAncestors[bDirectChildIndex]),
                    dc |-> dc]
              ELSE DepthCompare(a, b, dc)

\* the comparator of intersectingNodes.sort
zOrderCompare(a, b, dc) ==
    IF parent[a] # NONE /\ parent[b] # NONE /\ parent[a] = parent[b]
    THEN [v |-> IndexOf(children[parent[a]], a) - IndexOf(children[parent[a]], b),
          dc |-> dc]
    ELSE CompareByAncestors(a, b, dc, AncestorsFrom(a), AncestorsFrom(b))

\* Array.prototype.sort with the comparator above: a stable insertion sort, which
\* is the order every stable sort gives when the comparator is a consistent order
RECURSIVE InsertSorted(_, _, _, _)
InsertAfterCompare(sorted, x, i, c) ==
    IF c.v > 0 THEN InsertSorted(sorted, x, i - 1, c.dc)
    ELSE [list |-> SubSeq(sorted, 1, i) \o <<x>> \o SubSeq(sorted, i + 1, Len(sorted)),
          dc |-> c.dc]

InsertSorted(sorted, x, i, dc) ==
    IF i = 0 THEN [list |-> <<x>> \o sorted, dc |-> dc]
    ELSE InsertAfterCompare(sorted, x, i, zOrderCompare(sorted[i], x, dc))

RECURSIVE SortByZOrder(_, _)
SortByZOrder(r, todo) ==
    IF todo = <<>> THEN r
    ELSE SortByZOrder(InsertSorted(r.list, Head(todo), Len(r.list), r.dc), Tail(todo))

\* allNodes.filter(...): not the target, intersecting, visible with all ancestors
IntersectingFilter(targetNode) ==
    LET Keep(n) == /\ n # targetNode
                   /\ doesIntersect(targetNode, n)
                   /\ isNodeVisible(n)
    IN  SelectSeq(getAllNodesOnPage, Keep)

\* figma.getNodeById(id): null for a node that is no longer in the document
getNodeById(id) == IF id \in Range(getAllNodesOnPage) THEN id ELSE NONE

\* the cache-hit branch: the cached ids that still resolve, in cached order
CachedNodes(cachedIds) ==
    LET Alive(id) == getNodeById(id) # NONE
    IN  SelectSeq(cachedIds, Alive)

\* some cached id is that of a node deleted since the entry was written
HasDeletedNode(cachedIds) == \E k \in DOMAIN cachedIds : getNodeById(cachedIds[k]) = NONE

\* a validation that takes every cached id to resolve
AllAliveUnchecked(cachedIds) == TRUE

\* cachedNodes.length === cachedIds.length, and then cachedNodes is the cached list
AllAlive(cachedIds) == CachedNodes(cachedIds) = cachedIds

\* a finder that caches the ids of allNodes instead of those of result
StoreAllNodes(targetNode, ic, r) ==
    [list |-> r.list, dc |-> r.dc, ic |-> MapSet(ic, targetNode, getAllNodesOnPage),
     hit |-> FALSE]

\* intersectionCache.set(cacheKey, result.map(node => node.id)); return result
StoreInCache(targetNode, ic, r) ==
    [list |-> r.list, dc |-> r.dc, ic |-> MapSet(ic, targetNode, r.list), hit |-> FALSE]

\* findIntersectingNodesBelow after clearCachesIfNeeded: the list, both caches after,
\* and whether the list came from the intersection cache
findIntersectingNodesBelow(targetNode, dc, ic) ==
    IF targetNode \in DOMAIN ic /\ AllAlive(ic[targetNode])
    THEN [list |-> CachedNodes(ic[targetNode]), dc |-> dc, ic |-> ic, hit |-> TRUE]
    ELSE StoreInCache(targetNode, ic,
                      SortByZOrder([list |-> <<>>, dc |-> dc], IntersectingFilter(targetNode)))

\* ------------------------------------------------------------------ the page

\* fills.find(fill => fill.type === 'SOLID' && (visible === undefined || visible === true))
FirstSolidVisiblePaint(paints) == FirstSolidVisible(paints)

PageColor(paint) == <<paint.color[1] * 255, paint.color[2] * 255, paint.color[3] * 255>>

\* a getPageBackground whose default is #121212
getPageBackgroundDark ==
    IF Len(page.fills) > 0 /\ FirstSolidVisiblePaint(page.fills) # 0
    THEN [color |-> PageColor(page.fills[FirstSolidVisiblePaint(page.fills)]),
          phase |-> "page", src |-> PAGE, paint |-> FirstSolidVisiblePaint(page.fills)]
    ELSE IF Len(page.backgrounds) > 0 /\ FirstSolidVisiblePaint(page.backgrounds) # 0
    THEN [color |-> PageColor(page.backgrounds[FirstSolidVisiblePaint(page.backgrounds)]),
          phase |-> "page", src |-> PAGE,
          paint |-> FirstSolidVisiblePaint(page.backgrounds)]
    ELSE IF Len(page.background) > 0 /\ page.background[1].type = "SOLID"
    THEN [color |-> PageColor(page.background[1]),
          phase |-> "page", src |-> PAGE, paint |-> 1]
    ELSE [color |-> <<18000, 18000, 18000>>, phase |-> "fallback", src |-> NONE, paint |-> 0]

\* getPageBackground: page.fills, then page.backgrounds, then the legacy
\* page.background, then the default; never a falsy value
getPageBackground ==
    IF Len(page.fills) > 0 /\ FirstSolidVisiblePaint(page.fills) # 0
    THEN [color |-> PageColor(page.fills[FirstSolidVisiblePaint(page.fills)]),
          phase |-> "page", src |-> PAGE, paint |-> FirstSolidVisiblePaint(page.fills)]
    ELSE IF Len(page.backgrounds) > 0 /\ FirstSolidVisiblePaint(page.backgrounds) # 0
    THEN [color |-> PageColor(page.backgrounds[FirstSolidVisiblePaint(page.backgrounds)]),
          phase |-> "page", src |-> PAGE,
          paint |-> FirstSolidVisiblePaint(page.backgrounds)]
    ELSE IF Len(page.background) > 0 /\ page.background[1].type = "SOLID"
    THEN [color |-> PageColor(page.background[1]),
          phase |-> "page", src |-> PAGE, paint |-> 1]
    ELSE [color |-> FALLBACK_COLOR, phase |-> "fallback", src |-> NONE, paint |-> 0]

\* ------------------------------------------------------------------ detection

NoResult == [color |-> <<>>, phase |-> "none", src |-> NONE, paint |-> 0]

\* a catch block that answers null
ErrorResultNull == [color |-> <<>>, phase |-> "none", src |-> NONE, paint |-> 0]

\* the catch block of detectBackgroundColor
ErrorResult == [color |-> <<30000, 30000, 30000>>, phase |-> "error", src |-> NONE, paint |-> 0]

\* a PHASE 1 that scans the siblings behind from the farthest to the nearest
siblingsBehindUnreversed(node) ==
    LET siblings == children[parent[node]]
    IN  SubSeq(siblings, 1, IndexOf(siblings, node) - 1)

\* siblings.slice(0, nodeIndex).reverse()
siblingsBehind(node) ==
    LET siblings == children[parent[node]]
    IN  Reverse(SubSeq(siblings, 1, IndexOf(siblings, node) - 1))

\* PHASE 1: the first sibling behind, nearest first, that passes both tests (0: none)
SiblingPhase(node) ==
    LET Passes(sibling) == /\ hasValidSolidFill(sibling)
                           /\ doesNodeIntersectOrEncapsulate(sibling, node)
        behind == siblingsBehind(node)
        i == FirstIndex([k \in DOMAIN behind |-> Passes(behind[k])])
    IN  IF parent[node] = NONE \/ i = 0 THEN 0 ELSE behind[i]

\* PHASE 2: the direct parent, when it is not the page and has a valid fill (0: none)
ParentPhase(node) ==
    IF /\ parent[node] # NONE
       /\ parent[node] # PAGE
       /\ nodes[parent[node]].hasFills
       /\ hasValidSolidFill(parent[node])
    THEN parent[node]
    ELSE 0

\* PHASE 4: polyNodes.sort by nestingLevel descending, then zIndex ascending (stable)
RECURSIVE InsertPoly(_, _, _)
InsertPoly(sorted, x, i) ==
    IF i = 0 THEN <<x>> \o sorted
    ELSE LET a == sorted[i]
             c == IF nestingLevel(a) # nestingLevel(x)
                  THEN nestingLevel(x) - nestingLevel(a)
                  ELSE zIndex(a) - zIndex(x)
         IN  IF c > 0 THEN InsertPoly(sorted, x, i - 1)
             ELSE SubSeq(sorted, 1, i) \o <<x>> \o SubSeq(sorted, i + 1, Len(sorted))

RECURSIVE SortPoly(_, _)
SortPoly(done, todo) ==
    IF todo = <<>> THEN done
    ELSE SortPoly(InsertPoly(done, Head(todo), Len(done)), Tail(todo))

sortedNodes(intersectingNodes) == SortPoly(<<>>, intersectingNodes)

\* PHASE 5 accepts this intersecting node
Phase5Accepts(node, x) ==
    /\ hasValidBlendModes(x)
    /\ hasValidSolidFill(x)
    /\ doesNodeIntersectAndIsBelow(node, x)

\* PHASE 5 stops at the first node whose fills cannot be read (it throws) or that
\* it accepts; 0 when the loop runs to its end
Phase5Stop(node, sorted) ==
    LET Stops(x) == FillsAreMixed(x) \/ Phase5Accepts(node, x)
    IN  FirstIndex([k \in DOMAIN sorted |-> Stops(sorted[k])])

\* PHASE 6, one walk: the first ancestor of x, at most MAX_ANCESTOR_DEPTH levels up
\* and below the page, with a valid fill that contains the target (0: none); the
\* walk ends at an ancestor with an unsupported blend mode
RECURSIVE AncestorWalk(_, _, _)
AncestorWalk(node, current, ancestorDepth) ==
    IF current \notin Nodes \/ ancestorDepth > MAX_ANCESTOR_DEPTH THEN 0
    ELSE IF ~hasValidBlendMode(nodes[current].blendMode) THEN 0
    ELSE IF /\ nodes[current].hasFills
            /\ hasValidSolidFill(current)
            /\ doesNodeContain(current, node)
    THEN current
    ELSE AncestorWalk(node, ParentOf(current), ancestorDepth + 1)

\* a walk that counts the parent of the intersecting node as level 0
Phase6WalkFromZero(node, x) ==
    IF ~hasValidBlendModes(x) THEN 0 ELSE AncestorWalk(node, ParentOf(x), 0)

\* the walk from one intersecting node: let ancestorDepth = 1
Phase6Walk(node, x) ==
    IF ~hasValidBlendModes(x) THEN 0 ELSE AncestorWalk(node, ParentOf(x), 1)

RECURSIVE AncestorPhase(_, _)
AncestorPhase(node, sorted) ==
    IF sorted = <<>> THEN 0
    ELSE IF Phase6Walk(node, Head(sorted)) # 0 THEN Phase6Walk(node, Head(sorted))
    ELSE AncestorPhase(node, Tail(sorted))

\* PHASE 8: the fixed colour, when getPageBackground gave nothing
Phase8Result == [color |-> FALLBACK_COLOR, phase |-> "fallback", src |-> NONE, paint |-> 0]

\* PHASES 7 and 8, given what getPageBackground returned
PageOrFixed(pageBackground) ==
    IF pageBackground # NoResult THEN pageBackground ELSE Phase8Result

\* PHASES 7 and 8, given PHASE 6's ancestor
AfterPhase6(node, ancestor) ==
    IF ancestor # 0 THEN FillResult("ancestor", ancestor) ELSE PageOrFixed(getPageBackground)

\* PHASES 5 to 8 on the sorted list, given where PHASE 5 stops
AfterPhase5(node, sorted, stop) ==
    IF stop # 0
    THEN IF FillsAreMixed(sorted[stop]) THEN ErrorResult
         ELSE FillResult("intersecting", sorted[stop])
    ELSE AfterPhase6(node, AncestorPhase(node, sorted))

\* PHASES 4 to 8 on the sorted list
OnSorted(node, sorted) == AfterPhase5(node, sorted, Phase5Stop(node, sorted))

\* PHASES 3 to 8, given the list findIntersectingNodesBelow returned
LaterPhases(node, intersectingNodes) == OnSorted(node, sortedNodes(intersectingNodes))

\* PHASE 2 onwards of the early phases, given PHASE 1's sibling
AfterSiblings(node, sibling) ==
    IF sibling # 0 THEN FillResult("sibling", sibling)
    ELSE IF ParentPhase(node) # 0 THEN FillResult("parent", ParentPhase(node))
    ELSE NoResult

\* PHASES 1 and 2 (and the log of the node's own colour, which throws on mixed
\* fills); NoResult when the call goes on to findIntersectingNodesBelow
EarlyPhases(node) ==
    IF FillsAreMixed(node) THEN ErrorResult
    ELSE AfterSiblings(node, SiblingPhase(node))

\* PHASE 3 onwards, given the caches after clearCachesIfNeeded and the finder's answer
WithFinder(node, c, f) ==
    [result |-> LaterPhases(node, f.list), list |-> f.list,
     dc |-> f.dc, ic |-> f.ic, last |-> c.last,
     served |-> IF f.hit THEN "cache" ELSE "computed",
     stale |-> node \in DOMAIN c.ic /\ HasDeletedNode(c.ic[node])]

FromFinder(node, c) == WithFinder(node, c, findIntersectingNodesBelow(node, c.dc, c.ic))

AfterEarly(node, dc, ic, last, t, early) ==
    IF early # NoResult
    THEN [result |-> early, list |-> <<>>, dc |-> dc, ic |-> ic, last |-> last,
          served |-> "early", stale |-> FALSE]
    ELSE FromFinder(node, clearCachesIfNeeded(dc, ic, last, t))

\* detectBackgroundColor(node) at time t with the caches dc, ic, last: what it
\* returns, the list the finder gave it, how that list was obtained, and the caches
\* after the call
detectBackgroundColor(node, dc, ic, last, t) ==
    AfterEarly(node, dc, ic, last, t, EarlyPhases(node))

\* a PHASE 1 that reverses node.parent.children itself, up to the node
hostChildrenReversed(node) ==
    LET siblings == children[parent[node]]
        nodeIndex == IndexOf(siblings, node)
    IN  [children EXCEPT ![parent[node]] =
            Reverse(SubSeq(siblings, 1, nodeIndex - 1))
                \o SubSeq(siblings, nodeIndex, Len(siblings))]

\* the children arrays of the host after the call.  Every in-place operation of the
\* call works on an array of its own: PHASE 1 reverses a slice of
\* Array.from(node.parent.children), the finder sorts the array allNodes.filter
\* built, PHASE 4 sorts the array intersectingNodes.map built.
hostChildrenAfter(node) == children

\* ------------------------------------------------------------------ scenes

SolidPaint(color, opacity, blendMode) ==
    [type |-> "SOLID", visible |-> TRUE, opacity |-> opacity,
     blendMode |-> blendMode, color |-> color]

\* every node paints with colours of its own, so a colour names its paint
MainColor(i) == <<100 * i, 200, 300>>
GhostColor(i) == <<100 * i, 900, 900>>

BoxD == [x |-> 2, y |-> 2, width |-> 2, height |-> 2]
BoxL == [x |-> 0, y |-> 0, width |-> 8, height |-> 8]
BoxFar == [x |-> 10, y |-> 10, width |-> 7, height |-> 7]
BoxTouch == [x |-> 4, y |-> 2, width |-> 2, height |-> 2]

Plain(i) ==
    [visible |-> TRUE, opacity |-> 100, blendMode |-> "NORMAL", hasFills |-> TRUE,
     mixed |-> FALSE, fills |-> <<SolidPaint(MainColor(i), 100, "NORMAL")>>, box |-> BoxD]

\* a rectangle or frame differing from Plain in one respect
Variant(i, kind) ==
    CASE kind = "plain" -> Plain(i)
      [] kind = "hidden" -> [Plain(i) EXCEPT !.visible = FALSE]
      [] kind = "nofill" -> [Plain(i) EXCEPT !.fills = <<>>]
      [] kind = "ghost" ->
            [Plain(i) EXCEPT !.fills = <<SolidPaint(GhostColor(i), 0, "NORMAL"),
                                         SolidPaint(MainColor(i), 100, "NORMAL")>>]
      [] kind = "burn" -> [Plain(i) EXCEPT !.blendMode = "LINEAR_BURN"]
      [] kind = "fillburn" ->
            [Plain(i) EXCEPT !.fills = <<SolidPaint(MainColor(i), 100, "LINEAR_BURN")>>]
      [] kind = "large" -> [Plain(i) EXCEPT !.box = BoxL]
      [] kind = "far" -> [Plain(i) EXCEPT !.box = BoxFar]
      [] kind = "nobox" -> [Plain(i) EXCEPT !.box = NoBox]
      [] kind = "touch" -> [Plain(i) EXCEPT !.box = BoxTouch]
      [] kind = "multiply" -> [Plain(i) EXCEPT !.blendMode = "MULTIPLY"]
      [] kind = "mixed" -> [Plain(i) EXCEPT !.mixed = TRUE, !.fills = <<>>]
      [] kind = "group" -> [Plain(i) EXCEPT !.hasFills = FALSE, !.fills = <<>>]

Kinds == {"plain", "hidden", "nofill", "ghost", "burn", "fillburn", "multiply", "large",
          "far", "nobox", "mixed"}

WHITE == <<1000, 1000, 1000>>

\* the page: a white background, none at all, or a fully transparent solid one
PagePaints ==
    {[fills |-> <<>>, backgrounds |-> <<SolidPaint(WHITE, 100, "NORMAL")>>, background |-> <<>>],
     [fills |-> <<>>, backgrounds |-> <<>>, background |-> <<>>],
     [fills |-> <<>>, backgrounds |-> <<SolidPaint(WHITE, 0, "NORMAL")>>, background |-> <<>>]}

\* the scene nodes are numbered in document order: a node's parent is the page, the
\* node before it, or an ancestor of the node before it
RECURSIVE InDocumentOrder(_, _)
InDocumentOrder(f, i) ==
    IF i > Len(f) THEN TRUE
    ELSE /\ f[i] < i
         /\ i > 1 => \/ f[i] = PAGE
                     \/ f[i] = i - 1
                     \/ \E k \in DOMAIN f :
                           LET RECURSIVE Up(_, _)
                               Up(x, steps) == IF steps = 0 \/ x = PAGE THEN x
                                               ELSE Up(f[x], steps - 1)
                           IN  Up(i - 1, k) = f[i] /\ f[i] # PAGE
         /\ InDocumentOrder(f, i + 1)

ParentMaps == {f \in [1..NumNodes -> {PAGE} \cup (1..NumNodes)] : InDocumentOrder(f, 1)}

\* a set of node ids as the children array, in document order
RECURSIVE Ascending(_)
Ascending(S) ==
    IF S = {} THEN <<>>
    ELSE LET m == CHOOSE x \in S : \A y \in S : x <= y
         IN  <<m>> \o Ascending(S \ {m})

ChildrenOf(f) == [p \in {PAGE} \cup DOMAIN f |-> Ascending({n \in DOMAIN f : f[n] = p})]

\* ------------------------------------------------------------------ the machine

\* a scene: a tree in document order, at most maxVariants nodes that are not Plain,
\* mixed fills on leaves only (text nodes)
SceneFrom(kinds, pages, maxVariants) ==
    /\ parent \in ParentMaps
    /\ children = ChildrenOf(parent)
    /\ \E k \in [DOMAIN parent -> kinds] :
          /\ Cardinality({n \in DOMAIN k : k[n] # "plain"}) <= maxVariants
          /\ \A n \in DOMAIN k : k[n] = "mixed" => children[n] = <<>>
          /\ nodes = [n \in DOMAIN k |-> Variant(n, k[n])]
    /\ page \in pages

PluginInit ==
    /\ nodeDepthCache = EmptyMap
    /\ intersectionCache = EmptyMap
    /\ lastCacheReset = 0
    /\ now = 0
    /\ target = 0
    /\ result = NoResult
    /\ lastList = <<>>
    /\ memo = [n \in Nodes |-> NoResult]
    /\ call = [repeat |-> FALSE, served |-> "none", stale |-> FALSE]
    /\ event = "start"
    /\ edits = 0
    /\ storedAt = EmptyMap
    /\ selection = <<>>
    /\ posted = <<>>

Init == SceneFrom(Kinds, PagePaints, MaxVariants) /\ PluginInit

\* one call detectBackgroundColor(t).  Every call site has read t.fills as an array
\* before the call (src/src/code.ts:992, 1163, 2204), so t.fills is never mixed.
Returned(t, d) ==
    /\ target' = t
    /\ result' = d.result
    /\ lastList' = d.list
    /\ memo' = IF memo[t] = NoResult THEN [memo EXCEPT ![t] = d.result] ELSE memo
    /\ call' = [repeat |-> memo[t] # NoResult, served |-> d.served, stale |-> d.stale]
    /\ event' = "detect"
    /\ storedAt' = [k \in DOMAIN d.ic |->
                        IF k = t /\ d.served = "computed" THEN now ELSE storedAt[k]]
    /\ nodeDepthCache' = d.dc
    /\ intersectionCache' = d.ic
    /\ lastCacheReset' = d.last

Detect(t) ==
    /\ t \in Range(getAllNodesOnPage)
    /\ ~FillsAreMixed(t)
    /\ Returned(t, detectBackgroundColor(t, nodeDepthCache, intersectionCache,
                                         lastCacheReset, now))
    /\ children' = hostChildrenAfter(t)
    /\ UNCHANGED <<parent, nodes, page, now, edits, uiVars>>

\* the first call after the plugin started
FirstDetect(t) == target = 0 /\ Detect(t)

Cleared(c) ==
    /\ nodeDepthCache' = c.dc
    /\ intersectionCache' = c.ic
    /\ lastCacheReset' = c.last
    /\ storedAt' = [k \in DOMAIN c.ic |-> storedAt[k]]

\* figma.on("selectionchange", () => clearCachesIfNeeded()): the first of the two
\* handlers of the event, which is all of the event that touches the caches when no
\* selected node has a solid fill
SelectionChange ==
    /\ Cleared(clearCachesIfNeeded(nodeDepthCache, intersectionCache, lastCacheReset, now))
    /\ event' = "selectionchange"
    /\ UNCHANGED <<sceneVars, now, target, result, lastList, memo, call, edits, uiVars>>

\* the clock advances
Tick ==
    /\ now < MaxTicks * TickMs
    /\ now' = now + TickMs
    /\ UNCHANGED <<sceneVars, cacheVars, target, result, lastList, memo, call, event, edits,
                   storedAt, uiVars>>

Next == \E t \in Nodes : FirstDetect(t)

Spec == Init /\ [][Next]_vars

\* repeated calls, selection changes and the clock, on fewer scenes
CacheKinds == {"plain", "hidden"}

WhitePage == {p \in PagePaints : p.backgrounds # <<>> /\ p.backgrounds[1].opacity > 0}

InitCache == SceneFrom(CacheKinds, WhitePage, MaxCacheVariants) /\ PluginInit

NextCache ==
    \/ \E t \in Nodes : Detect(t)
    \/ SelectionChange
    \/ Tick

SpecCache == InitCache /\ [][NextCache]_vars

\* what every edit of the document leaves alone; the edits counted are those made
\* after the first call (an earlier one only makes another initial scene)
Edited ==
    /\ target # 0
    /\ edits < MaxEdits
    /\ edits' = edits + 1
    /\ event' = "edit"
    /\ UNCHANGED <<page, cacheVars, now, target, result, lastList, memo, call, storedAt,
                   uiVars>>

\* the user deletes node n (with everything below it)
Remove(n) ==
    /\ n \in Range(getAllNodesOnPage)
    /\ parent' = [parent EXCEPT ![n] = NONE]
    /\ children' = [children EXCEPT ![parent[n]] = SelectSeq(@, LAMBDA x : x # n)]
    /\ Edited
    /\ UNCHANGED nodes

\* the user hides node n
Hide(n) ==
    /\ n \in Range(getAllNodesOnPage)
    /\ nodes[n].visible
    /\ nodes' = [nodes EXCEPT ![n].visible = FALSE]
    /\ Edited
    /\ UNCHANGED <<parent, children>>

\* the sequence with its elements at i and i + 1 exchanged
SwapWithNext(seq, i) ==
    [k \in DOMAIN seq |-> IF k = i THEN seq[i + 1] ELSE IF k = i + 1 THEN seq[i] ELSE seq[k]]

\* the user brings node n one step forward among its siblings
Reorder(n) ==
    /\ n \in Range(getAllNodesOnPage)
    /\ IndexOf(children[parent[n]], n) < Len(children[parent[n]])
    /\ children' = [children EXCEPT ![parent[n]] = SwapWithNext(@, IndexOf(@, n))]
    /\ Edited
    /\ UNCHANGED <<parent, nodes>>

\* a call for the node that stays selected
DetectAgain(t) == target \in {0, t} /\ Detect(t)

\* repeated calls for one selection, selection events and the clock, while the user
\* edits the document
NextEdit ==
    \/ \E t \in Nodes : DetectAgain(t)
    \/ SelectionChange
    \/ Tick
    \/ \E n \in Nodes : Remove(n)
    \/ \E n \in Nodes : Hide(n)
    \/ \E n \in Nodes : Reorder(n)

\* the scenes the edits start from: every node visible, with one opaque solid fill
EditKinds == {"plain"}

InitEdit == SceneFrom(EditKinds, WhitePage, MaxCacheVariants) /\ PluginInit

SpecEdit == InitEdit /\ [][NextEdit]_vars

\* scenes for the geometry tests: nodes without a bounding box, and nodes whose box
\* shares an edge with the box of the others
TouchKinds == {"plain", "nobox", "touch", "nofill"}

InitTouch == SceneFrom(TouchKinds, WhitePage, MaxVariants) /\ PluginInit

SpecTouch == InitTouch /\ [][Next]_vars

\* deep scenes: enough nodes for a walk of MAX_ANCESTOR_DEPTH levels to fall short
\* (the target, a node in front of it and a chain of ancestors between); at most one
\* node has an unsupported blend mode
DeepNodes == NumNodes + MAX_ANCESTOR_DEPTH

\* one chain of nested nodes, or two: node r starts the second chain on the page
ChainMaps ==
    {[i \in 1..DeepNodes |-> IF i = 1 \/ i = r THEN PAGE ELSE i - 1] : r \in 1..DeepNodes}

DeepKinds == {"plain", "nofill", "far", "burn"}

InitDeep ==
    /\ parent \in ChainMaps
    /\ children = ChildrenOf(parent)
    /\ \E k \in [DOMAIN parent -> DeepKinds] :
          /\ Cardinality({n \in DOMAIN k : k[n] = "burn"}) <= 1
          /\ nodes = [n \in DOMAIN k |-> Variant(n, k[n])]
    /\ page \in WhitePage
    /\ PluginInit

\* one first call on a deep scene
SpecDeep == InitDeep /\ [][Next]_vars

\* ------------------------------------------------------------------ selection events

MaxSelection == 2

\* a #rrggbb string: its three bytes, and whether its letters are capitals
Hex(bytes, upper) == [digits |-> bytes, upper |-> upper]

\* detectedBackground = null
NoHex == Hex(<<>>, FALSE)

\* '#121212'
DEFAULT_DARK == Hex(<<18, 18, 18>>, FALSE)

\* Math.round(c / 255 * 255) of a returned channel
RoundChannel(c) == (c + 500) \div 1000

\* `#${rHex}${gHex}${bHex}`.toUpperCase() of a returned colour
UpperHex(color) ==
    Hex(<<RoundChannel(color[1]), RoundChannel(color[2]), RoundChannel(color[3])>>, TRUE)

\* rgbToHex(r / 255, g / 255, b / 255) of a returned colour
rgbToHex(color) ==
    Hex(<<RoundChannel(color[1]), RoundChannel(color[2]), RoundChannel(color[3])>>, FALSE)

\* the handler's loop reaches hasValidBlendModes(node), which iterates node.fills
\* once the node's own blend mode has passed: a TypeError on figma.mixed
LoopThrows(n) ==
    /\ nodes[n].blendMode = "PASS_THROUGH" \/ isSupportedBlendMode(nodes[n].blendMode)
    /\ FillsAreMixed(n)

\* typedNode.fills.some(fill => fill.type === 'SOLID')
HasSolidFill(n) ==
    nodes[n].hasFills /\ \E i \in DOMAIN nodes[n].fills : nodes[n].fills[i].type = "SOLID"

\* for (const node of selection): the index at which the loop ended, by an exception
\* or by one of its two breaks (0: it ran through)
LoopEnd(sel) ==
    IndexOf([k \in DOMAIN sel |->
                LoopThrows(sel[k]) \/ ~hasValidBlendModes(sel[k]) \/ HasSolidFill(sel[k])],
            TRUE)

\* the handler's variables after the loop that ended at index k
AfterLoop(sel, k) ==
    IF k = 0 THEN [thrown |-> FALSE, hasValidFill |-> FALSE, invalid |-> FALSE, node |-> NONE]
    ELSE IF LoopThrows(sel[k])
    THEN [thrown |-> TRUE, hasValidFill |-> FALSE, invalid |-> FALSE, node |-> NONE]
    ELSE IF ~hasValidBlendModes(sel[k])
    THEN [thrown |-> FALSE, hasValidFill |-> FALSE, invalid |-> TRUE, node |-> NONE]
    ELSE [thrown |-> FALSE, hasValidFill |-> TRUE, invalid |-> FALSE, node |-> sel[k]]

SelectionChangedMessage(sel, loop, bg) ==
    [type |-> "selection-changed", hasSelection |-> Len(sel) > 0,
     hasValidFill |-> loop.hasValidFill, nodeId |-> loop.node, detectedBackground |-> bg]

InitialColorMessage(nodeId, hasColor, bg) ==
    [type |-> "initial-color", hasColor |-> hasColor, nodeId |-> nodeId,
     detectedBackground |-> bg]

\* what one selectionchange event leaves: the selection, the messages, the caches
Posted(sel, msgs, c) ==
    /\ selection' = sel
    /\ posted' = msgs
    /\ nodeDepthCache' = c.dc
    /\ intersectionCache' = c.ic
    /\ lastCacheReset' = c.last
    /\ storedAt' = [k \in DOMAIN c.ic |-> IF k \in DOMAIN intersectionCache
                                          THEN storedAt[k] ELSE now]
    /\ event' = "selectionchange"
    /\ UNCHANGED <<sceneVars, now, target, result, lastList, memo, call, edits>>

\* sendInitialSelection after its own detectBackgroundColor(selection[0]) returned d
InitialSent(sel, first, d) ==
    Posted(sel, <<first, InitialColorMessage(sel[1], TRUE, rgbToHex(d.result.color))>>, d)

\* sendInitialSelection(), after the message first, with the caches c
sendInitialSelection(sel, first, c) ==
    IF ~nodes[sel[1]].hasFills
    THEN Posted(sel, <<first, InitialColorMessage(NONE, FALSE, DEFAULT_DARK)>>, c)
    ELSE IF ~HasSolidFill(sel[1])
    THEN Posted(sel, <<first, InitialColorMessage(sel[1], FALSE, DEFAULT_DARK)>>, c)
    ELSE InitialSent(sel, first,
                     detectBackgroundColor(sel[1], c.dc, c.ic, c.last, now))

\* the handler from its postMessage on, a node with a solid fill found and
\* detectBackgroundColor(loop.node) having returned d
AfterDetect(sel, loop, d) ==
    IF ~loop.invalid
    THEN sendInitialSelection(sel, SelectionChangedMessage(sel, loop, UpperHex(d.result.color)), d)
    ELSE Posted(sel, <<SelectionChangedMessage(sel, loop, UpperHex(d.result.color))>>, d)

\* the second handler, the loop done, with the caches c the first handler left
Handled(sel, loop, c) ==
    IF loop.thrown THEN Posted(sel, <<>>, c)
    ELSE IF loop.hasValidFill
    THEN AfterDetect(sel, loop, detectBackgroundColor(loop.node, c.dc, c.ic, c.last, now))
    ELSE Posted(sel, <<SelectionChangedMessage(sel, loop, NoHex)>>, c)

\* the selections of at most MaxSelection nodes, in the order they were selected
Selections ==
    {sel \in UNION {[1..k -> Range(getAllNodesOnPage)] : k \in 0..MaxSelection} :
        \A i, j \in DOMAIN sel : i # j => sel[i] # sel[j]}

\* one selectionchange event: the two handlers registered with figma.on, in the
\* order of their registration
SelectionEvent(sel) ==
    Handled(sel, AfterLoop(sel, LoopEnd(sel)),
            clearCachesIfNeeded(nodeDepthCache, intersectionCache, lastCacheReset, now))

\* the first selection after the plugin started
FirstSelection(sel) == event = "start" /\ SelectionEvent(sel)

NextSelect == \E sel \in Selections : FirstSelection(sel)

SelectKinds == {"plain", "nofill", "burn", "mixed", "group"}

InitSelect == SceneFrom(SelectKinds, WhitePage, MaxVariants) /\ PluginInit

SpecSelect == InitSelect /\ [][NextSelect]_vars

\* ------------------------------------------------------------------ properties
\* The vocabulary of the properties, stated on the scene graph alone.

\* the call that has just returned was made on S
Called(S) == target = S /\ S \in Nodes

\* a paint that shows: solid, visible, not fully transparent
OpaqueVisibleSolid(fill) == fill.type = "SOLID" /\ fill.visible /\ fill.opacity > 0

HasOpaqueVisibleSolidFill(n) ==
    /\ nodes[n].hasFills
    /\ ~nodes[n].mixed
    /\ \E i \in DOMAIN nodes[n].fills : OpaqueVisibleSolid(nodes[n].fills[i])

\* the colour of the node's first paint that shows, as bytes
OpaqueFillColour(n) ==
    LET i == CHOOSE k \in DOMAIN nodes[n].fills :
                /\ OpaqueVisibleSolid(nodes[n].fills[k])
                /\ \A j \in DOMAIN nodes[n].fills :
                      OpaqueVisibleSolid(nodes[n].fills[j]) => k <= j
        c == nodes[n].fills[i].color
    IN  <<ToByte(c[1]) * 1000, ToByte(c[2]) * 1000, ToByte(c[3]) * 1000>>

BoxesOverlap(a, b) ==
    /\ getBoundingBox(a) # NoBox
    /\ getBoundingBox(b) # NoBox
    /\ Overlap(getBoundingBox(a), getBoundingBox(b))

IsBehindSibling(B, S) ==
    /\ B # S
    /\ parent[B] = parent[S]
    /\ IndexOf(children[parent[S]], B) < IndexOf(children[parent[S]], S)

\* a sibling behind S that is visible, shows a solid fill and overlaps S
QualifyingSibling(B, S) ==
    /\ IsBehindSibling(B, S)
    /\ nodes[B].visible
    /\ HasOpaqueVisibleSolidFill(B)
    /\ BoxesOverlap(B, S)

NearestQualifyingSibling(B, S) ==
    /\ QualifyingSibling(B, S)
    /\ \A X \in Nodes :
          QualifyingSibling(X, S) =>
              IndexOf(children[parent[S]], X) <= IndexOf(children[parent[S]], B)

\* some sibling behind S passes the two tests of the sibling phase
SiblingPhaseHasCandidate(S) ==
    \E B \in Nodes : /\ IsBehindSibling(B, S)
                     /\ hasValidSolidFill(B)
                     /\ doesNodeIntersectOrEncapsulate(B, S)

ParentPhaseHasCandidate(S) == parent[S] \in Nodes /\ hasValidSolidFill(parent[S])

\* the proper ancestors of n that are scene nodes
SceneAncestors(n) == {a \in Range(AncestorsFrom(parent[n])) : a \in Nodes}

\* the paint record a result was read from
PaintRead(r) ==
    IF r.src \in Nodes THEN nodes[r.src].fills[r.paint]
    ELSE IF FirstSolidVisiblePaint(page.fills) # 0 THEN page.fills[r.paint]
    ELSE IF FirstSolidVisiblePaint(page.backgrounds) # 0 THEN page.backgrounds[r.paint]
    ELSE page.background[r.paint]

\* C1 (totality): for every scene node S the call detectBackgroundColor(S) returns
\* a colour of three numeric channels; it never returns null or undefined and no
\* exception reaches the caller.
C1_Totality ==
    target # 0 =>
        /\ result # NoResult
        /\ result.phase # "none"
        /\ Len(result.color) = 3
        /\ \A i \in 1..3 : result.color[i] \in 0..255000

\* C1's case: a call in which PHASE 5 threw on mixed fills and the catch block answered
C1_Witness ==
    /\ target # 0
    /\ result.phase = "error"
    /\ \E x \in Range(lastList) : FillsAreMixed(x)

\* C2 (sibling precedence): if B is the nearest sibling behind S (same parent, lower
\* index) that is visible, has an opaque visible solid fill and overlaps S, then
\* detectBackgroundColor(S) returns B's fill colour.
C2_SiblingPrecedence ==
    \A B \in Nodes :
        (Called(target) /\ NearestQualifyingSibling(B, target)) =>
            /\ result.src = B
            /\ result.color = OpaqueFillColour(B)

\* C3 (parent fallback): if no sibling behind S qualifies in the sibling phase and
\* S's direct parent is not the page and has a valid solid fill, then
\* detectBackgroundColor(S) returns the colour of the parent's fill.
C3_ParentFallback ==
    (/\ Called(target)
     /\ ~SiblingPhaseHasCandidate(target)
     /\ ParentPhaseHasCandidate(target)) =>
        /\ result.src = parent[target]
        /\ result.color = OpaqueFillColour(parent[target])

\* C4 (exclusion of self): detectBackgroundColor(S) never returns a colour read from
\* S's own fills, whatever fills S has.
C4_ExclusionOfSelf == Called(target) => result.src # target

\* C5 (valid paint): whenever the returned colour is read from a paint of a node or
\* of the page, that very paint is SOLID, visible and of opacity greater than 0.
C5_ValidPaint ==
    (target # 0 /\ result.paint # 0) => OpaqueVisibleSolid(PaintRead(result))

\* C6 (blend-mode exclusion of siblings): the sibling phase never returns the colour
\* of a sibling whose own blend mode is unsupported (LINEAR_BURN, LINEAR_DODGE).
C6_SiblingBlendMode ==
    (target # 0 /\ result.phase = "sibling") =>
        nodes[result.src].blendMode \notin {"LINEAR_BURN", "LINEAR_DODGE"}

\* C7 (visibility inheritance): a node with a valid solid fill that has an invisible
\* ancestor is never the node the returned colour is read from.
C7_VisibilityInheritance ==
    (target # 0 /\ result.src \in Nodes) =>
        ~(/\ hasValidSolidFill(result.src)
          /\ \E a \in SceneAncestors(result.src) : ~nodes[a].visible)

\* C8 (determinism): while the scene graph is not modified, every call
\* detectBackgroundColor(S) returns the colour the first call on S returned, whether
\* the finder answers from the intersection cache or recomputes after a reset.
C8_Determinism == target # 0 => result.color = memo[target].color

\* C8's case: a repeated call answered from the intersection cache, filled after a
\* reset of the caches
C8_Witness ==
    /\ target # 0
    /\ call.repeat
    /\ call.served = "cache"
    /\ lastList # <<>>
    /\ lastCacheReset > 0

\* the nodes the finder keeps for S: not S, overlapping S, visible with all ancestors
IntersectingNodes(S) ==
    {x \in Nodes : x # S /\ BoxesOverlap(S, x) /\ isNodeVisible(x)}

NoIntersectingFill(S) ==
    \A x \in IntersectingNodes(S) :
        /\ ~hasValidSolidFill(x)
        /\ \A a \in SceneAncestors(x) : ~hasValidSolidFill(a)

PageHasSolidVisiblePaint ==
    \/ \E i \in DOMAIN page.fills : page.fills[i].type = "SOLID" /\ page.fills[i].visible
    \/ \E i \in DOMAIN page.backgrounds :
          page.backgrounds[i].type = "SOLID" /\ page.backgrounds[i].visible
    \/ \E i \in DOMAIN page.background : page.background[i].type = "SOLID"

NothingBehind(S) ==
    /\ ~SiblingPhaseHasCandidate(S)
    /\ ~ParentPhaseHasCandidate(S)
    /\ NoIntersectingFill(S)
    /\ ~PageHasSolidVisiblePaint

\* C9 (fallback terminality): if S has no qualifying sibling, no non-page parent with
\* a valid fill, no intersecting node with a valid fill, no ancestor of an
\* intersecting node with a valid fill, and the page has no solid visible background
\* paint, then detectBackgroundColor(S) returns exactly RGB(30, 30, 30).
C9_FallbackTerminality ==
    (Called(target) /\ NothingBehind(target)) => result.color = <<30000, 30000, 30000>>

\* C9's case: the call went through every phase, past an intersecting node without
\* a fill, and PHASE 7 found no page background
C9_Witness ==
    /\ Called(target)
    /\ NothingBehind(target)
    /\ IntersectingNodes(target) # {}
    /\ lastList # <<>>
    /\ result.phase = "fallback"

IntersectingPhaseHasCandidate(S) ==
    \E x \in IntersectingNodes(S) : Phase5Accepts(S, x)

AncestorPhaseHasCandidate(S) ==
    \E x \in IntersectingNodes(S) : Phase6Walk(S, x) # 0

\* the first phase of the chain that has a candidate for S
FirstPhaseWithCandidate(S) ==
    IF SiblingPhaseHasCandidate(S) THEN "sibling"
    ELSE IF ParentPhaseHasCandidate(S) THEN "parent"
    ELSE IF IntersectingPhaseHasCandidate(S) THEN "intersecting"
    ELSE IF AncestorPhaseHasCandidate(S) THEN "ancestor"
    ELSE IF PageHasSolidVisiblePaint THEN "page"
    ELSE "fallback"

\* C10 (fallback-chain order): the returned colour comes from the first phase, in the
\* order sibling, parent, intersecting node, ancestor of an intersecting node, page
\* background, fixed fallback, that has a qualifying candidate.
C10_ChainOrder == Called(target) => result.phase = FirstPhaseWithCandidate(target)

\* C14 (Multiply, Screen, Overlay): a node whose blend mode is MULTIPLY, SCREEN or
\* OVERLAY is skipped as a background candidate; its fill colour is never returned.
C14_MultiplyScreenOverlay ==
    (target # 0 /\ result.src \in Nodes) =>
        nodes[result.src].blendMode \notin {"MULTIPLY", "SCREEN", "OVERLAY"}

HasUnsupportedBlendMode(n) ==
    \/ nodes[n].blendMode \in UNSUPPORTED_BLEND_MODES
    \/ \E i \in DOMAIN nodes[n].fills :
          /\ nodes[n].fills[i].type = "SOLID"
          /\ nodes[n].fills[i].blendMode \in UNSUPPORTED_BLEND_MODES

\* C16 (blend mode before fills): in no phase is the returned colour read from a node
\* with an unsupported blend mode on the node itself or on one of its solid fills.
C16_BlendModeBeforeFills ==
    (target # 0 /\ result.src \in Nodes) => ~HasUnsupportedBlendMode(result.src)

\* the page child that is the node or contains it
RECURSIVE PageChildOf(_)
PageChildOf(n) == IF parent[n] = PAGE THEN n ELSE PageChildOf(parent[n])

IsAbove(x, S) == IndexOf(children[PAGE], PageChildOf(x)) > IndexOf(children[PAGE], S)

\* C17 (search universe): when S is a direct child of the page, no page child with a
\* higher index than S and no descendant of such a child is in the intersection list
\* or is the node the returned colour is read from.
C17_SearchUniverse ==
    (Called(target) /\ parent[target] = PAGE) =>
        /\ \A x \in Range(lastList) : ~IsAbove(x, target)
        /\ result.src \in Nodes => ~IsAbove(result.src, target)

\* C18 (candidate order): when the intersecting-nodes phase supplies the colour, the
\* source has the greatest sibling index among the eligible intersecting candidates
\* of its nesting level.
C18_CandidateOrder ==
    (Called(target) /\ result.phase = "intersecting") =>
        \A x \in IntersectingNodes(target) :
            (Phase5Accepts(target, x) /\ nestingLevel(x) = nestingLevel(result.src))
                => zIndex(x) <= zIndex(result.src)

BoxEncloses(a, b) ==
    /\ getBoundingBox(a) # NoBox
    /\ getBoundingBox(b) # NoBox
    /\ getBoundingBox(a).x <= getBoundingBox(b).x
    /\ getBoundingBox(a).y <= getBoundingBox(b).y
    /\ getBoundingBox(a).x + getBoundingBox(a).width
          >= getBoundingBox(b).x + getBoundingBox(b).width
    /\ getBoundingBox(a).y + getBoundingBox(a).height
          >= getBoundingBox(b).y + getBoundingBox(b).height

\* C19 (sibling geometry): the sibling phase returns a sibling's colour only if the
\* sibling's box intersects or fully encloses the target's box; a sibling whose box
\* is disjoint from the target's is never the source.
C19_SiblingGeometry ==
    (Called(target) /\ result.phase = "sibling") =>
        (BoxesOverlap(result.src, target) \/ BoxEncloses(result.src, target))

\* the siblings behind S that pass the two tests of the sibling phase
SiblingCandidates(S) ==
    {B \in Nodes : /\ IsBehindSibling(B, S)
                   /\ hasValidSolidFill(B)
                   /\ doesNodeIntersectOrEncapsulate(B, S)}

\* C20 (nearest first): when several siblings behind S qualify in the sibling phase,
\* the one with the highest child index below S supplies the colour.
C20_NearestFirst ==
    (Called(target) /\ SiblingCandidates(target) # {}) =>
        /\ result.phase = "sibling"
        /\ result.src \in SiblingCandidates(target)
        /\ \A B \in SiblingCandidates(target) :
              IndexOf(children[parent[target]], B)
                  <= IndexOf(children[parent[target]], result.src)

\* C20's case: two siblings behind S qualify and the nearer one is the source
C20_Witness ==
    /\ Called(target)
    /\ Cardinality(SiblingCandidates(target)) >= 2
    /\ result.phase = "sibling"

\* C11: after every selectionchange event the intersection cache and the depth cache
\* are empty, however recently they were last reset.
C11_SelectionChangeClears ==
    event = "selectionchange" => intersectionCache = EmptyMap /\ nodeDepthCache = EmptyMap

\* the colour a resolution of the target returns that starts from empty caches
CacheFreeColour == detectBackgroundColor(target, EmptyMap, EmptyMap, now, now).result.color

\* C12: whatever resolutions, selection events, clock advances and edits came before,
\* a call returns the colour a cache-free resolution of the current scene returns.
C12_CacheTransparency == event = "detect" => result.color = CacheFreeColour

\* the list the finder computes for the target from the current scene alone
RecomputedList == findIntersectingNodesBelow(target, EmptyMap, EmptyMap).list

\* C13: the list the finder returns holds no deleted node, and when the cached entry
\* of the target names a deleted node the list is recomputed from the current scene
\* and replaces the entry.
C13_StaleHitIsMiss ==
    event = "detect" =>
        /\ \A k \in DOMAIN lastList : getNodeById(lastList[k]) # NONE
        /\ call.stale => /\ call.served = "computed"
                         /\ lastList = RecomputedList
                         /\ intersectionCache[target] = lastList

\* a call that found a deleted node in the cached entry and recomputed a list that
\* is not empty
C13_Witness == event = "detect" /\ call.stale /\ lastList # <<>>

\* how many parent links lead from x up to a (0: a is x; negative: a is not above x)
LevelsAbove(a, x) == IndexOf(AncestorsFrom(x), a) - 1

\* a is reached by a walk of at most three levels up from a node of the finder's list
WithinThreeLevels(a, list) ==
    \E k \in DOMAIN list : LevelsAbove(a, list[k]) \in 1..3

\* C21: a colour of the ancestor phase is read from a node (never the page) that is
\* one to three levels above some intersecting node, has a solid fill that shows and
\* whose bounding box contains the bounding box of the selected node.
C21_AncestorWalkBound ==
    (target # 0 /\ result.phase = "ancestor") =>
        /\ result.src \in Nodes
        /\ WithinThreeLevels(result.src, lastList)
        /\ HasOpaqueVisibleSolidFill(result.src)
        /\ BoxEncloses(result.src, target)

\* a call that reached the ancestor phase where a node four levels above an
\* intersecting node, out of reach of every walk, has a solid fill that shows and
\* contains the selected node, and is not the source
C21_Witness ==
    /\ target # 0
    /\ result.phase \in {"ancestor", "page"}
    /\ \E A \in Nodes :
          /\ \E k \in DOMAIN lastList : LevelsAbove(A, lastList[k]) = 4
          /\ ~WithinThreeLevels(A, lastList)
          /\ nodes[A].blendMode \notin UNSUPPORTED_BLEND_MODES
          /\ HasOpaqueVisibleSolidFill(A)
          /\ BoxEncloses(A, target)
          /\ result.src # A

\* the walk from x up to a meets no node with an unsupported blend mode, x and a
\* included
CleanWalk(x, a) ==
    /\ ~HasUnsupportedBlendMode(x)
    /\ LevelsAbove(a, x) \in 1..3
    /\ \A b \in Nodes :
          (LevelsAbove(b, x) >= 1 /\ LevelsAbove(b, x) <= LevelsAbove(a, x))
              => ~HasUnsupportedBlendMode(b)

\* C22: a colour of the ancestor phase comes from a walk that started at an
\* intersecting node without unsupported blend mode and met no ancestor with an
\* unsupported blend mode up to and including the ancestor returned.
C22_WalkStopsAtBlend ==
    (target # 0 /\ result.phase = "ancestor") =>
        \E k \in DOMAIN lastList : CleanWalk(lastList[k], result.src)

\* C23: the intersecting-nodes phase returns no descendant of a node whose blend
\* mode is LINEAR_BURN or LINEAR_DODGE.
C23_SubtreeIneligible ==
    (target # 0 /\ result.phase = "intersecting") =>
        \A a \in SceneAncestors(result.src) :
            nodes[a].blendMode \notin UNSUPPORTED_BLEND_MODES

\* the node shows: neither it nor any node above it is hidden
ShowsWithAncestors(x) == \A a \in {x} \cup SceneAncestors(x) : nodes[a].visible

\* C24: a list the finder computed holds exactly the nodes other than the target
\* whose bounding box overlaps the target's and that are visible together with all
\* their ancestors; a hidden node, or one below a hidden node, is never in it.
C24_FinderList ==
    (event = "detect" /\ call.served = "computed") =>
        /\ \A k \in DOMAIN lastList :
              /\ lastList[k] # target
              /\ BoxesOverlap(target, lastList[k])
              /\ ShowsWithAncestors(lastList[k])
        /\ \A x \in Nodes :
              (x # target /\ BoxesOverlap(target, x) /\ ShowsWithAncestors(x)
                 /\ getNodeById(x) # NONE) => x \in Range(lastList)

\* a computed list that is not empty and leaves out an overlapping node that is
\* visible itself but lies below a hidden node
C24_Witness ==
    /\ event = "detect"
    /\ call.served = "computed"
    /\ lastList # <<>>
    /\ \E x \in Nodes :
          /\ x # target
          /\ BoxesOverlap(target, x)
          /\ nodes[x].visible
          /\ ~ShowsWithAncestors(x)
          /\ x \notin Range(lastList)

HasBox(n) == getBoundingBox(n) # NoBox

\* the two boxes meet along an edge or at a corner and nowhere else
TouchOnly(a, b) ==
    LET boxA == getBoundingBox(a)
        boxB == getBoundingBox(b)
    IN  /\ HasBox(a) /\ HasBox(b)
        /\ boxA.x <= boxB.x + boxB.width /\ boxB.x <= boxA.x + boxA.width
        /\ boxA.y <= boxB.y + boxB.height /\ boxB.y <= boxA.y + boxA.height
        /\ \/ boxA.x = boxB.x + boxB.width \/ boxB.x = boxA.x + boxA.width
           \/ boxA.y = boxB.y + boxB.height \/ boxB.y = boxA.y + boxA.height

\* C25: every geometric predicate is false when either node has no bounding box; a
\* node without one is never the source of the sibling, intersecting or ancestor
\* phase and, as the target, gets an empty intersection list; a node whose box only
\* touches the target's is not in the list.
C25_NoBoxNoIntersection ==
    event = "detect" =>
        /\ \A a, b \in Nodes :
              (~HasBox(a) \/ ~HasBox(b)) =>
                  /\ ~doesIntersect(a, b)
                  /\ ~doesNodeIntersectAndIsBelow(a, b)
                  /\ ~doesNodeContain(a, b)
                  /\ ~doesNodeIntersectOrEncapsulate(a, b)
        /\ result.phase \in {"sibling", "intersecting", "ancestor"} =>
              HasBox(result.src) /\ HasBox(target)
        /\ (call.served = "computed" /\ ~HasBox(target)) => lastList = <<>>
        /\ \A k \in DOMAIN lastList :
              HasBox(lastList[k]) /\ ~TouchOnly(target, lastList[k])

\* a computed list that leaves out a visible node whose box touches the target's
\* and a visible node without a box
C25_Witness ==
    /\ event = "detect"
    /\ call.served = "computed"
    /\ \E x, y \in Nodes \ {target} :
          /\ TouchOnly(target, x) /\ ShowsWithAncestors(x) /\ x \notin Range(lastList)
          /\ ~HasBox(y) /\ ShowsWithAncestors(y) /\ y \notin Range(lastList)

\* the step is a call that went through findIntersectingNodesBelow
FinderStep == event' = "detect" /\ now' = now /\ call'.served \in {"cache", "computed"}

\* C26: the finder serves no entry written more than 5000 ms earlier; a lookup made
\* more than 5000 ms after the last reset finds the caches cleared (what they hold
\* after the call was written by it) and sets the reset time to now.
C26_TtlBound ==
    [][FinderStep =>
          /\ call'.served = "cache" =>
                /\ target' \in DOMAIN storedAt
                /\ now - storedAt[target'] <= CACHE_TTL
                /\ lastList' = intersectionCache[target']
          /\ now - lastCacheReset > CACHE_TTL =>
                /\ call'.served = "computed"
                /\ lastCacheReset' = now
                /\ DOMAIN intersectionCache' = {target'}
                /\ \A n \in DOMAIN nodeDepthCache' : n \in Range(lastList')
                /\ \A k \in DOMAIN storedAt' : storedAt'[k] = now
          /\ now - lastCacheReset <= CACHE_TTL => lastCacheReset' = lastCacheReset]_vars

\* a repeated call, more than 5000 ms after the reset, that cleared the caches and
\* computed its list again
C26_Witness ==
    /\ event = "detect"
    /\ call.repeat
    /\ call.served = "computed"
    /\ lastCacheReset = now
    /\ now > CACHE_TTL

\* the messages of the last event that have this type, by their place in posted
PostedOfType(type) == {i \in DOMAIN posted : posted[i].type = type}

\* C27: a selectionchange event posts exactly one 'selection-changed' message, any
\* 'initial-color' message comes after it, and one is posted only when the selection
\* is non-empty, has a solid fill and holds no node with an unsupported blend mode.
C27_SelectionMessages ==
    event = "selectionchange" =>
        /\ Cardinality(PostedOfType("selection-changed")) = 1
        /\ \A j \in PostedOfType("initial-color") :
              /\ \E i \in PostedOfType("selection-changed") : i < j
              /\ selection # <<>>
              /\ \E n \in Range(selection) : HasSolidFill(n)
              /\ \A n \in Range(selection) : ~LoopThrows(n) /\ hasValidBlendModes(n)

\* C29: the 'selection-changed' message of an event and the 'initial-color' message
\* that follows it carry the same nodeId and the same background colour.
C29_MessagesAgree ==
    event = "selectionchange" =>
        \A i \in PostedOfType("selection-changed"), j \in PostedOfType("initial-color") :
            /\ posted[i].nodeId = posted[j].nodeId
            /\ posted[i].detectedBackground.digits = posted[j].detectedBackground.digits

\* the blend modes of the host: the keys of the Record<BlendMode, string>
BlendModes == supportedBlendModes \cup UNSUPPORTED_BLEND_MODES

nodeHasUnsupportedBlendModes(n) ==
    \/ nodes[n].blendMode \in UNSUPPORTED_BLEND_MODES
    \/ /\ nodes[n].hasFills
       /\ \E i \in DOMAIN nodes[n].fills :
             /\ nodes[n].fills[i].type = "SOLID"
             /\ nodes[n].fills[i].visible
             /\ nodes[n].fills[i].blendMode # Undefined
             /\ nodes[n].fills[i].blendMode \in UNSUPPORTED_BLEND_MODES

\* C28: the deny list and the allow list agree on every blend mode of the host, and
\* every node gets the same verdict from the intersecting-node phase
\* (hasValidBlendModes), from the ancestor walk (hasValidBlendMode of its blend mode)
\* and from the selection handlers (hasValidBlendModes, nodeHasUnsupportedBlendModes).
C28_PredicatesAgree ==
    /\ Cardinality(BlendModes) = 19
    /\ \A mode \in BlendModes : hasValidBlendMode(mode) = isSupportedBlendMode(mode)
    /\ target # 0 =>
          \A n \in Nodes :
              ~FillsAreMixed(n) =>
                  /\ hasValidBlendModes(n) = hasValidBlendMode(nodes[n].blendMode)
                  /\ hasValidBlendModes(n) = ~nodeHasUnsupportedBlendModes(n)

\* C30: the node whose fill colour the call returns is not inside the subtree of the
\* selected node.
C30_NoDescendantSource ==
    (target # 0 /\ result.src \in Nodes) => target \notin SceneAncestors(result.src)

====
